---- MODULE Spec2Model ----
(***************************************************************************)
(* Model of the forecast endpoint of forex-server (src/app.py): the        *)
(* period-bucket alignment match_date_to_period and the handler predict    *)
(* with its cache check, its per-step check-then-write loop and its        *)
(* exception mapping.  The storage service (db.service) and the model      *)
(* pipeline (prediction) are collaborators whose code is not in src/; they *)
(* are modelled from their interface in spec.md section 6.                 *)
(***************************************************************************)
EXTENDS Integers, Sequences, FiniteSets, TLC

VARIABLES clock, nticks, nreq, nraise, store, pc, req, loc, obs, prev, md, watch,
          running, nswitch

vars == <<clock, nticks, nreq, nraise, store, pc, req, loc, obs, prev, md, watch,
          running, nswitch>>

----------------------------------------------------------------------------
(* Bounds of the model                                                     *)

TicksPerHour == 20      \* clock resolution: distinct readings of utcnow() per hour
MaxTicks == 1           \* hours that pass between two readings, in one behaviour
MaxRequests == 2        \* predict requests in one behaviour
MaxRaises == 1          \* storage / inference failures in one behaviour
MaxSwitches == 2        \* context switches between two requests in flight

(* Program constants                                                       *)

HoursPerDay == 24
num_of_predictions == 5

HOUR == TicksPerHour
DAY == HoursPerDay * HOUR

\* the first reading after 23:00 of day 1: the next hour boundary is midnight
StartClock == 2 * DAY - HOUR + 1

Procs == {1, 2}

----------------------------------------------------------------------------
(* Request inputs                                                          *)

PairInputs == {"EURUSD", "eurusd", "GBPUSD", "XXXYYY"}
PeriodInputs == {"d1", "h1", "H1", "w1", "x9"}
Closes == {1, 2}
\* Optional[float]: <<>> is None, <<s>> is the score s
Scores == {<<>>, <<1>>}
\* the bars: their last Close, and whether enough rows survive the warm-up
DataInputs == [Close : Closes, enough : BOOLEAN]

\* str.upper() / str.lower() on the inputs above
Upper(s) == IF s = "eurusd" THEN "EURUSD" ELSE s
Lower(s) == IF s = "H1" THEN "h1" ELSE s

----------------------------------------------------------------------------
(* Storage tables and the storage service                                  *)

CurrencyPairs == {"EURUSD", "GBPUSD"}
Periods == {"d1", "h1", "w1"}
Models == {"LSTM", "LSTM_Sentiment"}
\* (pair, period) combinations that have a trained model and scaler on disk
Artifacts == {"EURUSD"} \X Periods

\* Optional values: <<>> is None, <<x>> is x
None == <<>>

get_currency_pair(name) == IF name \in CurrencyPairs THEN <<name>> ELSE None
get_period(name) == IF name \in Periods THEN <<name>> ELSE None

\* The predictions table is a set of rows.  A row is identified by its key
\* and by n, its rank among the rows created with that key (the table's
\* row id, made independent of the order in which other keys were created).
SameKey(r, pair, period, model, date) ==
    /\ r.pair = pair
    /\ r.period = period
    /\ r.model = model
    /\ r.date = date

Match(db, pair, period, model) ==
    {r \in db : r.pair = pair /\ r.period = period /\ r.model = model}

Before(r, q) == r.date < q.date \/ (r.date = q.date /\ r.n <= q.n)

RECURSIVE SortByDate(_)
SortByDate(S) ==
    IF S = {} THEN <<>>
    ELSE LET r == CHOOSE r \in S : \A q \in S : Before(r, q)
         IN <<r>> \o SortByDate(S \ {r})

Take(s, n) == SubSeq(s, 1, IF Len(s) < n THEN Len(s) ELSE n)

\* the first n rows of the triple dated from_date or later, oldest first
get_n_future_predictions(db, pair, period, model, from_date, n) ==
    Take(SortByDate({r \in Match(db, pair, period, model) : r.date >= from_date}), n)

\* the first row of the key, or None
get_prediction_by_date(db, pair, period, model, date) ==
    LET S == {r \in db : SameKey(r, pair, period, model, date)}
    IN IF S = {} THEN None ELSE <<CHOOSE r \in S : \A q \in S : r.n <= q.n>>

\* row is the row object read earlier; the table's row of that id is written
update_prediction(db, row, value, last_live_value) ==
    {IF SameKey(r, row.pair, row.period, row.model, row.date) /\ r.n = row.n
     THEN [r EXCEPT !.value = value, !.last_live_value = last_live_value]
     ELSE r : r \in db}

create_prediction(db, pair, period, model, value, last_live_value, date) ==
    db \cup {[pair |-> pair, period |-> period, model |-> model, date |-> date,
              n |-> 1 + Cardinality({r \in db : SameKey(r, pair, period, model, date)}),
              value |-> value, last_live_value |-> last_live_value]}

\* every row of the triple, oldest first
get_all_predictions(db, pair, period, model) ==
    SortByDate(Match(db, pair, period, model))

----------------------------------------------------------------------------
(* The model pipeline                                                      *)

load_model_and_scaler(pair, period) == <<pair, period>> \in Artifacts

\* the N de-normalised predictions of one rollout: a deterministic function
\* of the bars and of the sentiment score
get_multiple_predictions(data, score) ==
    [i \in 1..num_of_predictions |->
        100 * data.Close + 10 * i + (IF score = <<>> THEN 0 ELSE score[1])]

----------------------------------------------------------------------------
(* app.py                                                                  *)

match_date_to_period_h0(period, offset, now) ==
    IF period = "d1" THEN (now - (now % DAY)) + (offset + 1) * DAY
    ELSE IF period = "h1" THEN (now - (now % HOUR)) + (offset + 1) * HOUR
    ELSE now

match_date_to_period_d0(period, offset, now) ==
    IF period = "d1" THEN (now - (now % DAY)) + offset * DAY
    ELSE IF period = "h1" THEN (now - (now % HOUR)) + offset * HOUR
    ELSE now

\* now is the reading of datetime.utcnow() at the call; every reading is
\* later than the one before it (the actions that call this advance the
\* clock by one unit)
match_date_to_period(period, offset, now) ==
    IF period = "d1" THEN (now - (now % DAY)) + (offset + 1) * DAY
    ELSE IF period = "h1" THEN (now - (now % HOUR)) + offset * HOUR
    ELSE now

ExceptClause_no404(exc) == 500

\* the except clauses of predict: the status of the response for an
\* exception raised inside the try block.  HTTPException is an Exception.
ExceptClause(exc) ==
    IF exc = "FileNotFoundError" THEN 404 ELSE 500

ServeCached_gt(existing, last_data_value) ==
    /\ Len(existing) > num_of_predictions
    /\ existing[1].last_live_value = last_data_value

ServeCached_neq(existing, last_data_value) ==
    /\ Len(existing) >= num_of_predictions
    /\ existing[1].last_live_value # last_data_value

\* the negation of the condition of line 120
ServeCached(existing, last_data_value) ==
    /\ Len(existing) >= num_of_predictions
    /\ existing[1].last_live_value = last_data_value

Upsert_createAlways(db, k, pair, period, model, value, last_live_value, date) ==
    create_prediction(db, pair, period, model, value, last_live_value, date)

Upsert_keepAnchor(db, k, pair, period, model, value, last_live_value, date) ==
    IF k # None
    THEN update_prediction(db, k[1], value, k[1].last_live_value)
    ELSE create_prediction(db, pair, period, model, value, last_live_value, date)

Upsert_prune(db, k, pair, period, model, value, last_live_value, date) ==
    IF k # None
    THEN update_prediction(db, k[1], value, last_live_value)
    ELSE create_prediction(db \ {r \in Match(db, pair, period, model) : r.date < date},
                           pair, period, model, value, last_live_value, date)

\* lines 147-152 and 157-160: k is the row found by get_prediction_by_date
Upsert(db, k, pair, period, model, value, last_live_value, date) ==
    IF k # None
    THEN update_prediction(db, k[1], value, last_live_value)
    ELSE create_prediction(db, pair, period, model, value, last_live_value, date)

SentimentPredictions_default(predictions, data, sentiment_score) ==
    IF sentiment_score # None
    THEN get_multiple_predictions(data, sentiment_score)
    ELSE get_multiple_predictions(data, <<1>>)

\* lines 135-138: a copy of the plain rollout, replaced by a second rollout
\* when a sentiment score was supplied
SentimentPredictions(predictions, data, sentiment_score) ==
    IF sentiment_score # None
    THEN get_multiple_predictions(data, sentiment_score)
    ELSE predictions

Series_lastN(preds) ==
    LET k == IF Len(preds) > num_of_predictions
             THEN Len(preds) - num_of_predictions ELSE 0
    IN [j \in 1..(Len(preds) - k) |->
           [value |-> preds[j + k].value, time |-> preds[j + k].date]]

\* lines 166-174: the rows read at lines 163-164 as a list of {value, time}
Series(preds) ==
    [j \in 1..Len(preds) |-> [value |-> preds[j].value, time |-> preds[j].date]]

NoReq == [pair |-> "None", period |-> "None",
          data |-> [Close |-> 0, enough |-> FALSE], score |-> <<>>]
NoLoc == [matched_date |-> 0, i |-> 0, prediction_date |-> 0, existing |-> None,
          predictions |-> <<>>, predictions_with_sentiment |-> <<>>]
NoObs == [status |-> 0, exc |-> "none", path |-> "none", loads |-> 0, rollouts |-> 0,
          writes |-> 0, dates |-> <<>>, store0 |-> {}, clock0 |-> 0,
          cached |-> <<>>, LSTM_predictions |-> <<>>,
          LSTM_sentiment_predictions |-> <<>>]
NoPrev == [req |-> NoReq, obs |-> NoObs]

Init ==
    /\ clock = StartClock
    /\ nticks = 0
    /\ nreq = 0
    /\ nraise = 0
    /\ store = {}
    /\ pc = [p \in Procs |-> "idle"]
    /\ req = [p \in Procs |-> NoReq]
    /\ loc = [p \in Procs |-> NoLoc]
    /\ obs = [p \in Procs |-> NoObs]
    /\ prev = NoPrev
    /\ md = [period |-> "None", offset |-> 0, now |-> 0, result |-> 0]
    /\ watch = TRUE
    /\ running = 1
    /\ nswitch = 0

\* the scheduler runs request p next
Schedule(p) ==
    IF p = running THEN UNCHANGED <<running, nswitch>>
    ELSE /\ nswitch < MaxSwitches
         /\ nswitch' = nswitch + 1
         /\ running' = p

\* the positions of a request at which it reads the clock next (lines 115
\* and 142); the clock is observed nowhere else
ClockReaders == {"idle", "done", "step"}

\* the wall clock reaches the next hour boundary before some request of P
\* reads it
Tick(P) ==
    /\ \E p \in P : pc[p] \in ClockReaders
    /\ nticks < MaxTicks
    /\ clock' = clock - (clock % HOUR) + HOUR
    /\ nticks' = nticks + 1
    /\ UNCHANGED <<nreq, nraise, store, pc, req, loc, obs, prev, md, watch,
                   running, nswitch>>

\* the request ends with the response the except clauses give for exc
Fail(p, exc, o) ==
    /\ pc' = [pc EXCEPT ![p] = "done"]
    /\ obs' = [obs EXCEPT ![p] = [o EXCEPT !.status = ExceptClause(exc), !.exc = exc]]

\* lines 89-120: validation, the models, the anchor, the cache check
Predict(p, currency_pair_in, period_in, data, sentimentScore) ==
    /\ pc[p] \in {"idle", "done"}
    /\ nreq < MaxRequests
    /\ nreq' = nreq + 1
    /\ prev' = IF watch /\ pc[p] = "done" THEN [req |-> req[p], obs |-> obs[p]] ELSE prev
    /\ LET currency_pair == Upper(currency_pair_in)
           period == Lower(period_in)
           last_data_value == data.Close
           matched_date == match_date_to_period(period, 0, clock)
           existing == get_n_future_predictions(store, currency_pair, period,
                           "LSTM", matched_date, num_of_predictions)
           seen == IF watch THEN existing ELSE <<>>
           o == IF watch THEN [NoObs EXCEPT !.store0 = store, !.clock0 = clock]
                ELSE NoObs
       IN /\ req' = [req EXCEPT ![p] = [pair |-> currency_pair, period |-> period,
                                        data |-> data, score |-> sentimentScore]]
          /\ IF get_currency_pair(currency_pair) = None
                   \/ get_period(period) = None
             THEN /\ Fail(p, "HTTPException400", o)
                  /\ loc' = [loc EXCEPT ![p] = NoLoc]
             ELSE /\ loc' = [loc EXCEPT ![p] = [NoLoc EXCEPT !.matched_date = matched_date]]
                  /\ IF ServeCached(existing, last_data_value)
                     THEN /\ pc' = [pc EXCEPT ![p] = "respond"]
                          /\ obs' = [obs EXCEPT ![p] =
                                        [o EXCEPT !.path = "cached", !.cached = seen]]
                     ELSE /\ pc' = [pc EXCEPT ![p] = "load"]
                          /\ obs' = [obs EXCEPT ![p] =
                                        [o EXCEPT !.path = "recompute", !.cached = seen]]
    /\ clock' = clock + 1
    /\ Schedule(p)
    /\ UNCHANGED <<nticks, nraise, store, md, watch>>

\* lines 122-138: the artifacts, the indicators, the window, the rollouts
Load(p) ==
    /\ pc[p] = "load"
    /\ LET o == [obs[p] EXCEPT !.loads = @ + 1]
       IN IF ~load_model_and_scaler(req[p].pair, req[p].period)
          THEN Fail(p, "FileNotFoundError", o) /\ UNCHANGED loc
          ELSE IF ~req[p].data.enough
          THEN Fail(p, "InsufficientHistory", o) /\ UNCHANGED loc
          ELSE /\ pc' = [pc EXCEPT ![p] = "step"]
               /\ LET predictions == get_multiple_predictions(req[p].data, None)
                  IN loc' = [loc EXCEPT ![p] =
                        [@ EXCEPT !.i = 0,
                                  !.predictions = predictions,
                                  !.predictions_with_sentiment =
                                      SentimentPredictions(predictions, req[p].data,
                                                           req[p].score)]]
               /\ obs' = [obs EXCEPT ![p] =
                     [o EXCEPT !.rollouts = IF req[p].score # <<>> THEN 2 ELSE 1]]
    /\ Schedule(p)
    /\ UNCHANGED <<clock, nticks, nreq, nraise, store, req, prev, md, watch>>

\* lines 142-146: the target timestamp of step i and the plain model's row
Step(p) ==
    /\ pc[p] = "step"
    /\ LET prediction_date == match_date_to_period(req[p].period, loc[p].i, clock)
       IN /\ loc' = [loc EXCEPT ![p] =
                 [@ EXCEPT !.prediction_date = prediction_date,
                           !.existing = get_prediction_by_date(store, req[p].pair,
                                            req[p].period, "LSTM", prediction_date)]]
          /\ obs' = [obs EXCEPT ![p].dates = Append(@, prediction_date)]
    /\ pc' = [pc EXCEPT ![p] = "put_lstm"]
    /\ clock' = clock + 1
    /\ Schedule(p)
    /\ UNCHANGED <<nticks, nreq, nraise, store, req, prev, md, watch>>

\* a write of one row: done, or refused by the table (a second row of a key
\* that another request created meanwhile; whether the schema refuses it is
\* not in src/, so both outcomes are possible)
Put(p, model, value, next_pc) ==
    LET k == loc[p].existing
        dup == k = None /\ get_prediction_by_date(store, req[p].pair, req[p].period,
                               model, loc[p].prediction_date) # None
    IN \/ /\ store' = Upsert(store, k, req[p].pair, req[p].period, model, value,
                             req[p].data.Close, loc[p].prediction_date)
          /\ obs' = [obs EXCEPT ![p].writes = @ + 1]
          /\ pc' = [pc EXCEPT ![p] = next_pc]
       \/ /\ dup
          /\ Fail(p, "IntegrityError", obs[p])
          /\ UNCHANGED store

\* lines 147-152
PutLSTM(p) ==
    /\ pc[p] = "put_lstm"
    /\ Put(p, "LSTM", loc[p].predictions[loc[p].i + 1], "get_sent")
    /\ Schedule(p)
    /\ UNCHANGED <<clock, nticks, nreq, nraise, req, loc, prev, md, watch>>

\* lines 155-156
GetSent(p) ==
    /\ pc[p] = "get_sent"
    /\ loc' = [loc EXCEPT ![p].existing =
                  get_prediction_by_date(store, req[p].pair, req[p].period,
                                         "LSTM_Sentiment", loc[p].prediction_date)]
    /\ pc' = [pc EXCEPT ![p] = "put_sent"]
    /\ Schedule(p)
    /\ UNCHANGED <<clock, nticks, nreq, nraise, store, req, obs, prev, md, watch>>

\* lines 157-160 and the loop's increment
PutSent(p) ==
    /\ pc[p] = "put_sent"
    /\ Put(p, "LSTM_Sentiment", loc[p].predictions_with_sentiment[loc[p].i + 1],
           IF loc[p].i + 1 < num_of_predictions THEN "step" ELSE "respond")
    /\ loc' = [loc EXCEPT ![p].i = @ + 1]
    /\ Schedule(p)
    /\ UNCHANGED <<clock, nticks, nreq, nraise, req, prev, md, watch>>

\* lines 163-179
Respond(p) ==
    /\ pc[p] = "respond"
    /\ obs' = [obs EXCEPT ![p] =
          [@ EXCEPT !.status = 200,
                    !.LSTM_predictions =
                        Series(get_all_predictions(store, req[p].pair, req[p].period,
                                                   "LSTM")),
                    !.LSTM_sentiment_predictions =
                        Series(get_all_predictions(store, req[p].pair, req[p].period,
                                                   "LSTM_Sentiment"))]]
    /\ pc' = [pc EXCEPT ![p] = "done"]
    /\ Schedule(p)
    /\ UNCHANGED <<clock, nticks, nreq, nraise, store, req, loc, prev, md, watch>>

\* a storage call raises (lines 183-185): the write the request is about to
\* make, or the reads of lines 163-164.  A read of line 146 or 156 that raises
\* leaves the same table as the write before which it is modelled.
Raise(p) ==
    /\ pc[p] \in {"put_lstm", "put_sent", "respond"}
    /\ nraise < MaxRaises
    /\ nraise' = nraise + 1
    /\ Fail(p, "Exception", obs[p])
    /\ Schedule(p)
    /\ UNCHANGED <<clock, nticks, nreq, store, req, loc, prev, md, watch>>

Handler(p) ==
    \/ \E cp \in PairInputs, per \in PeriodInputs, d \in DataInputs, s \in Scores :
          Predict(p, cp, per, d, s)
    \/ Load(p)
    \/ Step(p)
    \/ PutLSTM(p)
    \/ GetSent(p)
    \/ PutSent(p)
    \/ Respond(p)

\* requests served one after the other
Next == Tick({1}) \/ Handler(1) \/ Raise(1)

Spec == Init /\ [][Next]_vars

\* two requests for one pair in flight at once (two workers on one database)
HandlerConc(p) ==
    \/ \E per \in {"d1", "h1"}, c \in Closes :
          Predict(p, "EURUSD", per, [Close |-> c, enough |-> TRUE], <<>>)
    \/ Load(p)
    \/ Step(p)
    \/ PutLSTM(p)
    \/ GetSent(p)
    \/ PutSent(p)
    \/ Respond(p)

NextConc == \E p \in Procs : HandlerConc(p)

\* as Init, without the record of what each request found on arrival
InitConc ==
    /\ clock = StartClock
    /\ nticks = 0
    /\ nreq = 0
    /\ nraise = 0
    /\ store = {}
    /\ pc = [p \in Procs |-> "idle"]
    /\ req = [p \in Procs |-> NoReq]
    /\ loc = [p \in Procs |-> NoLoc]
    /\ obs = [p \in Procs |-> NoObs]
    /\ prev = NoPrev
    /\ md = [period |-> "None", offset |-> 0, now |-> 0, result |-> 0]
    /\ watch = FALSE
    /\ running = 1
    /\ nswitch = 0

SpecConc == InitConc /\ [][NextConc]_vars

----------------------------------------------------------------------------
(* Requests served one after the other over several hours, no failure      *)

\* as Tick, with one more hour to pass
Pass(P) ==
    /\ \E p \in P : pc[p] \in ClockReaders
    /\ nticks <= MaxTicks
    /\ clock' = (clock - (clock % HOUR)) + HOUR
    /\ nticks' = nticks + 1
    /\ UNCHANGED <<nreq, nraise, store, pc, req, loc, obs, prev, md, watch,
                   running, nswitch>>

NextClock == Pass({1}) \/ HandlerConc(1)

SpecClock == Init /\ [][NextClock]_vars

----------------------------------------------------------------------------
(* match_date_to_period on its own: any clock reading, any offset          *)

DateClocks == 0 .. (2 * DAY)
Offsets == 0 .. num_of_predictions

InitDate ==
    /\ clock \in DateClocks
    /\ nticks = 0
    /\ nreq = 0
    /\ nraise = 0
    /\ store = {}
    /\ pc = [p \in Procs |-> "idle"]
    /\ req = [p \in Procs |-> NoReq]
    /\ loc = [p \in Procs |-> NoLoc]
    /\ obs = [p \in Procs |-> NoObs]
    /\ prev = NoPrev
    /\ md = [period |-> "None", offset |-> 0, now |-> 0, result |-> 0]
    /\ watch = TRUE
    /\ running = 1
    /\ nswitch = 0

MatchDate(period, offset) ==
    /\ nreq < MaxRequests
    /\ nreq' = nreq + 1
    /\ md' = [period |-> period, offset |-> offset, now |-> clock,
              result |-> match_date_to_period(period, offset, clock)]
    /\ clock' = clock + 1
    /\ UNCHANGED <<nticks, nraise, store, pc, req, loc, obs, prev, watch,
                   running, nswitch>>

NextDate ==
    \/ Tick({1})
    \/ \E period \in Periods, offset \in Offsets : MatchDate(period, offset)

SpecDate == InitDate /\ [][NextDate]_vars

----------------------------------------------------------------------------
(* Vocabulary of the properties                                            *)

N == num_of_predictions

Width(period) == IF period = "d1" THEN DAY ELSE HOUR

\* the last multiple of w at or before t, and the first one after t
Floor(t, w) == CHOOSE b \in (t - w + 1)..t : b % w = 0
NextBoundary(t, w) == CHOOSE b \in (t + 1)..(t + w) : b % w = 0

Rows(db, pair, period, model, date) == {r \in db : SameKey(r, pair, period, model, date)}

KeyUnique(db) ==
    \A r \in db : Cardinality(Rows(db, r.pair, r.period, r.model, r.date)) = 1

Known(p) == get_currency_pair(req[p].pair) # None /\ get_period(req[p].period) # None

\* the request of the serial specification follows a successful request for
\* the same pair and period that arrived in the same bucket with the same Close
Repeats ==
    /\ pc[1] # "idle"
    /\ req[1].period \in {"d1", "h1"}
    /\ prev.obs.status = 200
    /\ prev.req.pair = req[1].pair
    /\ prev.req.period = req[1].period
    /\ prev.req.data.Close = req[1].data.Close
    /\ Floor(prev.obs.clock0, Width(req[1].period))
         = Floor(obs[1].clock0, Width(req[1].period))

\* C1 (idempotence): a d1 or h1 request that repeats a successful request in
\* the same bucket with the same last Close loads no model, runs no rollout,
\* writes nothing, and its response carries the same two series.
C1_Idempotent ==
    Repeats =>
        /\ obs[1].path = "cached"
        /\ obs[1].loads = 0
        /\ obs[1].rollouts = 0
        /\ obs[1].writes = 0
        /\ store = obs[1].store0
        /\ obs[1].status = 200 =>
              /\ obs[1].LSTM_predictions = prev.obs.LSTM_predictions
              /\ obs[1].LSTM_sentiment_predictions = prev.obs.LSTM_sentiment_predictions

C1_Witness ==
    /\ Repeats
    /\ pc[1] = "done"
    /\ obs[1].status = 200
    /\ prev.obs.path = "recompute"
    /\ Len(obs[1].LSTM_predictions) = N
    /\ Len(obs[1].LSTM_sentiment_predictions) = N

\* the request found a first cached future point whose anchor is not its Close
Stale ==
    /\ pc[1] # "idle"
    /\ Len(obs[1].cached) >= 1
    /\ obs[1].cached[1].last_live_value # req[1].data.Close

C3_CachedOnlyWhenComplete ==
    /\ obs[1].path = "cached" =>
          /\ obs[1].cached[1].last_live_value = req[1].data.Close
          /\ \A m \in Models, i \in 0..(N - 1) :
                Rows(obs[1].store0, req[1].pair, req[1].period, m,
                     loc[1].matched_date + i * Width(req[1].period)) # {}
    /\ (pc[1] # "idle" /\ Known(1) /\ obs[1].path # "cached") =>
          obs[1].path = "recompute"

\* C6: the target timestamps of one recompute are spaced exactly one bucket
\* apart, in step order, and a recompute that answers 200 has written N
\* predictions per model.
C6_Rollout ==
    /\ req[1].period \in {"d1", "h1"} =>
          \A i \in 1..(Len(obs[1].dates) - 1) :
              obs[1].dates[i + 1] = obs[1].dates[i] + Width(req[1].period)
    /\ \A i \in 1..(Len(obs[1].dates) - 1) : obs[1].dates[i + 1] > obs[1].dates[i]
    /\ (pc[1] = "done" /\ obs[1].status = 200 /\ obs[1].path = "recompute") =>
          /\ Len(obs[1].dates) = N
          /\ obs[1].writes = 2 * N

\* C7 (PredictionKey uniqueness): storage holds at most one row per
\* (pair, period, model, target timestamp), and after the write of a step the
\* row of its key carries the step's value and the request's Close.
C7_KeyUnique ==
    /\ KeyUnique(store)
    /\ pc[1] = "get_sent" =>
          \A r \in Rows(store, req[1].pair, req[1].period, "LSTM", loc[1].prediction_date) :
              /\ r.value = loc[1].predictions[loc[1].i + 1]
              /\ r.last_live_value = req[1].data.Close
    /\ (pc[1] \in {"step", "respond"} /\ loc[1].i >= 1) =>
          \A r \in Rows(store, req[1].pair, req[1].period, "LSTM_Sentiment",
                        loc[1].prediction_date) :
              /\ r.value = loc[1].predictions_with_sentiment[loc[1].i]
              /\ r.last_live_value = req[1].data.Close

\* a write that found the key's row and changed its value and its anchor
C7_Witness ==
    /\ pc[1] = "get_sent"
    /\ loc[1].existing # None
    /\ loc[1].existing[1].value # loc[1].predictions[loc[1].i + 1]
    /\ loc[1].existing[1].last_live_value # req[1].data.Close
    /\ Cardinality(Rows(store, req[1].pair, req[1].period, "LSTM",
                        loc[1].prediction_date)) = 1

\* C8: a request for a pair or period unknown to storage ends with status
\* 400, loads no model and writes nothing.
C8_ClientError ==
    (pc[1] = "done" /\ ~Known(1)) =>
        /\ obs[1].status = 400
        /\ obs[1].loads = 0
        /\ obs[1].writes = 0
        /\ store = obs[1].store0

\* C9: when no artifact exists for the pair and period the request ends with
\* status 404 and storage is what it was when the request arrived.
C9_NotFound ==
    (pc[1] = "done" /\ Known(1) /\ obs[1].path = "recompute"
        /\ ~load_model_and_scaler(req[1].pair, req[1].period)) =>
        /\ obs[1].status = 404
        /\ obs[1].status \notin {400, 500}
        /\ obs[1].writes = 0
        /\ store = obs[1].store0

\* a 404 on a table that already holds predictions
C9_Witness ==
    /\ pc[1] = "done"
    /\ obs[1].exc = "FileNotFoundError"
    /\ obs[1].status = 404
    /\ store # {}

\* C10 (last writer wins): with two requests in flight every key still has
\* exactly one row and no write is refused, so the row carries what the last
\* writer wrote.
C10_LastWriterWins ==
    /\ KeyUnique(store)
    /\ \A p \in Procs : obs[p].exc # "IntegrityError"

----------------------------------------------------------------------------
(* Properties of match_date_to_period, under SpecDate                      *)

\* C4 as stated: for h1 the result is the first hour boundary after now plus
\* offset hours, and for offset 0 it is later than now.
C4_NextHour ==
    md.period = "h1" =>
        /\ md.result = NextBoundary(md.now, HOUR) + md.offset * HOUR
        /\ md.offset = 0 => md.result > md.now

\* C4 as amended: for h1 the result is the start of the current hour (the last
\* hour boundary at or before now) plus offset hours; for offset 0 it is never
\* later than now.
C4_CurrentHour ==
    md.period = "h1" =>
        /\ md.result = Floor(md.now, HOUR) + md.offset * HOUR
        /\ md.offset = 0 => (md.result <= md.now /\ md.now - md.result < HOUR)

C4_Witness ==
    /\ md.period = "h1"
    /\ md.offset = 1
    /\ md.now % HOUR # 0
    /\ md.result = md.now - (md.now % HOUR) + HOUR

----------------------------------------------------------------------------
(* Claims C11 to C17                                                       *)

Range(s) == {s[j] : j \in 1..Len(s)}

\* C11 (frame): no step of a request deletes a stored prediction: every key
\* in storage is still in storage after the step, and a record that a step
\* changes has the request's pair and period and one of the target
\* timestamps the request has computed.
C11_NeverDeletes ==
    [][\A r \in store :
          /\ Rows(store', r.pair, r.period, r.model, r.date) # {}
          /\ r \notin store' =>
                /\ r.pair = req[1].pair
                /\ r.period = req[1].period
                /\ r.date \in Range(obs[1].dates)]_vars

\* a recompute has answered 200: it updated records, inserted records and
\* left a record of its own pair and period, dated before its targets, as
\* it found it
C11_Witness ==
    /\ pc[1] = "done"
    /\ obs[1].status = 200
    /\ obs[1].path = "recompute"
    /\ \E r \in obs[1].store0 : r \notin store
    /\ Cardinality(store) > Cardinality(obs[1].store0)
    /\ \E r \in obs[1].store0 :
          /\ r.pair = req[1].pair
          /\ r.period = req[1].period
          /\ r.date \notin Range(obs[1].dates)
          /\ r \in store

\* the offset-0 target of a request that reads the clock at now
Target0(period, now) ==
    IF period = "d1" THEN NextBoundary(now, DAY)
    ELSE IF period = "h1" THEN Floor(now, HOUR)
    ELSE now

\* the request follows a successful recompute for the same pair, period and
\* Close that arrived one bucket earlier and wrote the batch of that bucket
NextBucket ==
    /\ pc[1] # "idle"
    /\ req[1].period \in {"d1", "h1"}
    /\ prev.obs.status = 200
    /\ prev.obs.path = "recompute"
    /\ prev.req.pair = req[1].pair
    /\ prev.req.period = req[1].period
    /\ prev.req.data.Close = req[1].data.Close
    /\ \A i \in 1..N :
          prev.obs.dates[i] = Target0(req[1].period, prev.obs.clock0)
                                + (i - 1) * Width(req[1].period)
    /\ Floor(obs[1].clock0, Width(req[1].period))
         = Floor(prev.obs.clock0, Width(req[1].period)) + Width(req[1].period)

\* C12: a request in bucket b+1 that follows a successful recompute in
\* bucket b with the same Close finds fewer than N cached future points and
\* recomputes; once it has answered 200 it has, for each model, written N-1
\* records of the previous batch and inserted exactly one new record.
C12_FreshBecomesStale ==
    NextBucket =>
        /\ Len(obs[1].cached) < N
        /\ obs[1].path = "recompute"
        /\ (pc[1] = "done" /\ obs[1].status = 200) =>
              \A m \in Models :
                 /\ Cardinality(Range(obs[1].dates) \cap Range(prev.obs.dates)) = N - 1
                 /\ Cardinality(Match(store, req[1].pair, req[1].period, m))
                      = Cardinality(Match(obs[1].store0, req[1].pair,
                                          req[1].period, m)) + 1

\* C13: a request that fails has made no second attempt (one load, one
\* rollout per variant at most) and leaves storage exactly as it found it.
C13_FailureLeavesStore ==
    (pc[1] = "done" /\ obs[1].status # 200) =>
        /\ obs[1].loads <= 1
        /\ obs[1].rollouts <= 2
        /\ store = obs[1].store0

\* C14: whenever a d1 or h1 request is served from cache, the record of each
\* of its N target timestamps, for the plain and for the sentiment model, is
\* in storage and carries the request's last Close as anchor.
C14_CachedBatchAnchored ==
    (obs[1].path = "cached" /\ req[1].period \in {"d1", "h1"}) =>
        \A m \in Models, i \in 0..(N - 1) :
           \E r \in Rows(obs[1].store0, req[1].pair, req[1].period, m,
                         Target0(req[1].period, obs[1].clock0)
                           + i * Width(req[1].period)) :
              r.last_live_value = req[1].data.Close

\* stores that differ from db in the sentiment model's rows only: without
\* them, and with another anchor on each of them
SentimentVariants(db) ==
    LET plain == {r \in db : r.model = "LSTM"}
    IN {plain,
        plain \cup {[r EXCEPT !.last_live_value = @ + 1] : r \in db \ plain}}

\* the branch of lines 115-120 for a request that reads the clock at now
Branch(db, pair, period, now, last_data_value) ==
    ServeCached(get_n_future_predictions(db, pair, period, "LSTM",
                    match_date_to_period(period, 0, now), N), last_data_value)

\* the request differs at most in its sentiment score from the request
\* before it and arrived in the same bucket
SameButScore ==
    /\ pc[1] # "idle"
    /\ prev.obs.path # "none"
    /\ prev.req.pair = req[1].pair
    /\ prev.req.period = req[1].period
    /\ prev.req.data = req[1].data
    /\ Floor(prev.obs.clock0, Width(req[1].period))
         = Floor(obs[1].clock0, Width(req[1].period))

C16_NoScoreCopies ==
    /\ (obs[1].path = "recompute" /\ req[1].score = None) =>
          /\ obs[1].rollouts <= 1
          /\ \A j \in 1..(obs[1].writes \div 2) :
                \A m \in Models :
                   \A r \in Rows(store, req[1].pair, req[1].period, m, obs[1].dates[j]) :
                      /\ r.value = loc[1].predictions[j]
                      /\ r.last_live_value = req[1].data.Close
          /\ \A j \in 1..(obs[1].writes \div 2) :
                \A m \in Models :
                   Rows(store, req[1].pair, req[1].period, m, obs[1].dates[j]) # {}
    /\ obs[1].rollouts = 2 => req[1].score # None

\* a complete recompute without a score has overwritten a sentiment record
\* that an earlier request with a score had written
C16_Witness ==
    /\ pc[1] = "done"
    /\ obs[1].status = 200
    /\ obs[1].path = "recompute"
    /\ req[1].score = None
    /\ obs[1].writes = 2 * N
    /\ prev.req.score # None
    /\ \E r \in obs[1].store0 : r.model = "LSTM_Sentiment" /\ r \notin store

\* the series of model m in the response of the request
Returned(m) ==
    IF m = "LSTM" THEN obs[1].LSTM_predictions ELSE obs[1].LSTM_sentiment_predictions

====
